---- MODULE Spec2Model ----
(***************************************************************************)
(* Model of trader_joe_grid_search.py: the decide_trades() cycle of one    *)
(* grid combination (Bollinger band breakout with an RSI filter and a      *)
(* trailing stop loss), driven by the backtest executor.                   *)
(*                                                                         *)
(* Units.  Candle closes are integers (price units).  Stop-loss levels are *)
(* kept in 1/PCT_SCALE of a price unit, so that close * 0.9975 and         *)
(* close * 0.98 are exact integers.  Percent constants are scaled the same *)
(* way (0.9975 -> 9975, 0.98 -> 9800, 1.03 -> 10300, 0.50 -> 5000).        *)
(* Standard deviation multipliers are kept in tenths (2.5 -> 25).          *)
(* Cash is in whole USD; a trade's amount is in 1/PCT_SCALE USD.           *)
(***************************************************************************)
EXTENDS Integers, Sequences, FiniteSets, TLC

VARIABLES
    combination,      \* the GridCombination bound by grid_search_worker
    closes,           \* candle closes of the pair known so far (latest last)
    cash,             \* state.portfolio.get_current_cash()
    open_positions,   \* state.portfolio.open_positions
    trades,           \* list returned by the last decide_trades() call
    pair_fee,         \* pair.fee of the single trading pair
    pc,               \* executor position: "decide" or "execute"
    cycles,           \* number of decide_trades() cycles run
    next_position_id, \* id the portfolio gives to the next position
    cycle_start,      \* what the last cycle saw on entry (cash, positions)
    observed,         \* history: some cycle saw the open position's close at
                      \* or above opening price * activation level
    pair_count,       \* number of trading pairs in universe.pairs
    alone,            \* the same run with a universe no other worker touches
                      \* (cash, open_positions, trades, pair_fee)
    other_ran         \* history: another worker ran a cycle on the universe

vars == <<combination, closes, cash, open_positions, trades, pair_fee, pc,
          cycles, next_position_id, cycle_start, observed, pair_count, alone,
          other_ran>>

----------------------------------------------------------------------------
(* Bounds of the model *)

\* decide_trades() cycles per run
MaxCycles == 3

\* candles already in the universe at the first cycle: none, or from one
\* short of RSI_LENGTH up to MaxWarmup
MaxWarmup == 14

\* decide_trades() cycles followed of a run that is picked up late
MaxSeasonedCycles == 1

----------------------------------------------------------------------------
(* Strategy properties and inputs (module level constants of the source) *)

PCT_SCALE == 100 * 100

POSITION_SIZE == 5000
INITIAL_DEPOSIT == 5000
LIVE_TRADING_FEE == 20
LOOKBACK_WINDOW == 90
RSI_LENGTH == 14

STDDEV == <<20, 25, 28, 30, 35>>
RSI_THRESHOLD == <<55, 65, 75, 85>>
MOVING_AVERAGE_LENGTH == <<9, 12, 15, 20, 25>>

STOP_LOSS_PCT == 9800
TRAILING_STOP_LOSS_PCT == 9975
TRAILING_STOP_LOSS_ACTIVATION_LEVEL == 10300

\* trailing_stop_loss_pct of a position that has none
None == 0

\* The closes the market data provider can serve; the history before the
\* first cycle is flat at the lowest of them.
Closes == {95, 100, 104, 110}
WarmupClose == CHOOSE c \in Closes : \A d \in Closes : c <= d

\* pair.fee as loaded with the universe, before any cycle overwrites it
\* (in 1/PCT_SCALE)
UniverseFees == {20, 30}

Range(s) == {s[i] : i \in DOMAIN s}
Last(s) == s[Len(s)]

----------------------------------------------------------------------------
(* Indicator calculator: pandas_ta rsi() and bbands() on the close series *)

\* Fixed point scale of the exponentially weighted sums of rsi()
RsiScale == 100 * 100

\* close.diff(): the positive and the negative part of each change
Gain(close, i) == IF close[i] > close[i-1] THEN close[i] - close[i-1] ELSE 0
Loss(close, i) == IF close[i] < close[i-1] THEN close[i-1] - close[i] ELSE 0

\* One step of ewm(alpha = 1/length): the running weighted sum keeps
\* (length-1)/length of its value and takes in the new observation.
Decay(v, length) == v - (v \div length)

\* The weighted sum v carried over the changes lo..hi of the series, of the
\* gains (up) or of the losses.  The range is halved, and the sum of the
\* first half (never negative) computed before it is carried into the
\* second, to keep the evaluation shallow on a full lookback window.
RECURSIVE ewm_sum(_, _, _, _, _, _)
ewm_sum(close, lo, hi, length, up, v) ==
    IF lo > hi THEN v
    ELSE IF lo = hi
         THEN (IF up THEN Gain(close, lo) ELSE Loss(close, lo)) * RsiScale
                  + Decay(v, length)
         ELSE LET half == ewm_sum(close, lo, (lo + hi) \div 2, length, up, v)
              IN  IF half >= 0
                  THEN ewm_sum(close, (lo + hi) \div 2 + 1, hi, length, up, half)
                  ELSE 0

\* rma() numerators of the gains and of the losses up to index i; the common
\* denominator of the two weighted means cancels in the RSI ratio.
rma_gain(close, i, length) == ewm_sum(close, 2, i, length, TRUE, 0)

rma_loss(close, i, length) == ewm_sum(close, 2, i, length, FALSE, 0)

\* rsi() without the warm-up of min_periods: a value as soon as it returns
rsi_NoMinPeriods(close, length) ==
    IF Len(close) < length
    THEN [is_none |-> TRUE, nan |-> TRUE, gain |-> 0, loss |-> 0]
    ELSE LET g == rma_gain(close, Len(close), length)
             l == rma_loss(close, Len(close), length)
         IN  [is_none |-> FALSE, nan |-> (g + l = 0), gain |-> g, loss |-> l]

\* rsi(close, length): None when the series is shorter than length; the
\* latest value is NaN until length changes have been seen (min_periods) and
\* when there is neither gain nor loss (0/0); else 100 * gain / (gain + loss).
rsi(close, length) ==
    IF Len(close) < length
    THEN [is_none |-> TRUE, nan |-> TRUE, gain |-> 0, loss |-> 0]
    ELSE LET g == rma_gain(close, Len(close), length)
             l == rma_loss(close, Len(close), length)
         IN  [is_none |-> FALSE,
              nan     |-> (Len(close) < length + 1) \/ (g + l = 0),
              gain    |-> g,
              loss    |-> l]

\* rsi_series[-1] >= rsi_threshold; a comparison with NaN is False
RsiAtLeast(r, threshold) ==
    /\ ~r.nan
    /\ 100 * r.gain >= threshold * (r.gain + r.loss)

RECURSIVE SumFrom(_, _)
SumFrom(close, i) ==
    IF i > Len(close) THEN 0 ELSE close[i] + SumFrom(close, i + 1)

RECURSIVE SumSqFrom(_, _)
SumSqFrom(close, i) ==
    IF i > Len(close) THEN 0 ELSE close[i] * close[i] + SumSqFrom(close, i + 1)

\* bbands(close, length, std): None when the series is shorter than length;
\* else the latest bands, kept as the rolling sum and sum of squares of the
\* last length closes: mid = sum / length, stdev (ddof = 0) =
\* sqrt(length * sumsq - sum^2) / length, upper/lower = mid +- std * stdev.
bbands(close, length, std) ==
    IF Len(close) < length
    THEN [is_none |-> TRUE, length |-> length, std |-> std, sum |-> 0, sumsq |-> 0]
    ELSE [is_none |-> FALSE, length |-> length, std |-> std,
          sum   |-> SumFrom(close, Len(close) - length + 1),
          sumsq |-> SumSqFrom(close, Len(close) - length + 1)]

\* length^2 * variance of the band's window
Dispersion(bb) == bb.length * bb.sumsq - bb.sum * bb.sum

\* price > BBU: price - mid > std * stdev, with std in tenths, squared
AboveUpperBand(price, bb) ==
    /\ bb.length * price - bb.sum > 0
    /\ 100 * (bb.length * price - bb.sum) * (bb.length * price - bb.sum)
         > bb.std * bb.std * Dispersion(bb)

\* price < BBM
BelowMiddleBand(price, bb) == bb.length * price < bb.sum

----------------------------------------------------------------------------
(* PositionManager and Position, as decide_trades() uses them *)

\* is_any_open() that never sees the open position
is_any_open_Never(positions) == FALSE

is_any_open(positions) == Len(positions) > 0

get_current_position(positions) == positions[1]

\* the stop loss taken as the distance 1 - stop_loss_pct
InitialStopLoss_Complement(price, stop_loss_pct) ==
    price * (PCT_SCALE - stop_loss_pct)

\* stop loss of a position opened at price with stop_loss_pct
InitialStopLoss(price, stop_loss_pct) == price * stop_loss_pct

\* open_1x_long(pair, buy_amount, stop_loss_pct): the new position, in the
\* portfolio from now on, and the buy trade that is to fill it
NewPosition(position_id, price, amount, stop_loss_pct) ==
    [position_id            |-> position_id,
     opening_price          |-> price,
     amount                 |-> amount,
     stop_loss              |-> InitialStopLoss(price, stop_loss_pct),
     trailing_stop_loss_pct |-> None]

OpenTrade(position) ==
    [kind        |-> "open",
     position_id |-> position.position_id,
     amount      |-> position.amount,
     stop_loss   |-> position.stop_loss]

open_1x_long(position_id, price, amount, stop_loss_pct) ==
    <<OpenTrade(NewPosition(position_id, price, amount, stop_loss_pct))>>

CloseTrade(position) ==
    [kind        |-> "close",
     position_id |-> position.position_id,
     amount      |-> position.amount,
     stop_loss   |-> position.stop_loss]

\* close_all(): one sell trade for the whole of every open position
close_all(positions) == [i \in DOMAIN positions |-> CloseTrade(positions[i])]

----------------------------------------------------------------------------
(* decide_trades() *)

\* the whole cash put on the trade
BuyAmount_AllCash(cash_in_hand) == cash_in_hand * PCT_SCALE

\* buy_amount = cash * POSITION_SIZE
BuyAmount(cash_in_hand) == cash_in_hand * POSITION_SIZE

\* the open condition with "or" for "and"
OpenCondition_Or(price_latest, bollinger_bands, rsi_series, rsi_threshold) ==
    \/ AboveUpperBand(price_latest, bollinger_bands)
    \/ RsiAtLeast(rsi_series, rsi_threshold)

\* price_latest > bb_upper.iloc[-1] and rsi_series[-1] >= rsi_threshold
OpenCondition(price_latest, bollinger_bands, rsi_series, rsi_threshold) ==
    /\ AboveUpperBand(price_latest, bollinger_bands)
    /\ RsiAtLeast(rsi_series, rsi_threshold)

\* the close condition tested against the upper band
CloseCondition_UpperBand(price_latest, bollinger_bands) ==
    ~AboveUpperBand(price_latest, bollinger_bands)

\* price_latest < bb_mid.iloc[-1]
CloseCondition(price_latest, bollinger_bands) ==
    BelowMiddleBand(price_latest, bollinger_bands)

\* activation at the opening price itself
TrailingActivation_AtOpeningPrice(price_latest, position) ==
    price_latest >= position.opening_price

\* price_latest >= position.get_opening_price() * TRAILING_STOP_LOSS_ACTIVATION_LEVEL
TrailingActivation(price_latest, position) ==
    price_latest * PCT_SCALE
        >= position.opening_price * TRAILING_STOP_LOSS_ACTIVATION_LEVEL

\* the trailing stop loss taken from the opening price
TrailingStopLoss_FromOpeningPrice(price_latest, position) ==
    position.opening_price * TRAILING_STOP_LOSS_PCT

\* the trailing percent taken off the stop loss in place
TrailingStopLoss_OfStopLoss(price_latest, position) ==
    position.stop_loss
        - position.stop_loss \div (PCT_SCALE \div (PCT_SCALE - TRAILING_STOP_LOSS_PCT))

\* position.stop_loss = float(price_latest * TRAILING_STOP_LOSS_PCT)
TrailingStopLoss(price_latest, position) ==
    price_latest * TRAILING_STOP_LOSS_PCT

\* the check with an else branch that goes back to the initial stop loss
UpdateTrailingStop_Reverting(price_latest, position) ==
    IF TrailingActivation(price_latest, position)
    THEN [position EXCEPT
            !.trailing_stop_loss_pct = TRAILING_STOP_LOSS_PCT,
            !.stop_loss = TrailingStopLoss(price_latest, position)]
    ELSE [position EXCEPT
            !.trailing_stop_loss_pct = None,
            !.stop_loss = InitialStopLoss(position.opening_price, STOP_LOSS_PCT)]

\* The trailing stop loss check of an open position
UpdateTrailingStop(price_latest, position) ==
    IF TrailingActivation(price_latest, position)
    THEN [position EXCEPT
            !.trailing_stop_loss_pct = TRAILING_STOP_LOSS_PCT,
            !.stop_loss = TrailingStopLoss(price_latest, position)]
    ELSE position

Returned(new_trades, positions) ==
    [trades |-> new_trades, open_positions |-> positions]

\* the flat branch with the new position closed again before returning
DecideFlat_OpenAndClose(price_latest, bollinger_bands, rsi_series, cash_in_hand, comb, positions, position_id) ==
    IF OpenCondition(price_latest, bollinger_bands, rsi_series, comb.rsi_threshold)
    THEN Returned(
            open_1x_long(position_id, price_latest, BuyAmount(cash_in_hand), STOP_LOSS_PCT)
                \o close_all(<<NewPosition(position_id, price_latest,
                                           BuyAmount(cash_in_hand), STOP_LOSS_PCT)>>),
            Append(positions,
                   NewPosition(position_id, price_latest, BuyAmount(cash_in_hand),
                               STOP_LOSS_PCT)))
    ELSE Returned(<<>>, positions)

\* The branch of decide_trades() taken with no open position
DecideFlat(price_latest, bollinger_bands, rsi_series, cash_in_hand, comb, positions, position_id) ==
    IF OpenCondition(price_latest, bollinger_bands, rsi_series, comb.rsi_threshold)
    THEN Returned(
            open_1x_long(position_id, price_latest, BuyAmount(cash_in_hand), STOP_LOSS_PCT),
            Append(positions,
                   NewPosition(position_id, price_latest, BuyAmount(cash_in_hand),
                               STOP_LOSS_PCT)))
    ELSE Returned(<<>>, positions)

\* the long branch with the trailing stop loss check skipped when closing
DecideLong_CloseSkipsTrailing(price_latest, bollinger_bands, positions) ==
    IF CloseCondition(price_latest, bollinger_bands)
    THEN Returned(close_all(positions), positions)
    ELSE Returned(<<>>,
                  [positions EXCEPT
                      ![1] = UpdateTrailingStop(price_latest, get_current_position(positions))])

\* the long branch with the position taken out of the portfolio on closing
DecideLong_ClosesAtOnce(price_latest, bollinger_bands, positions) ==
    IF CloseCondition(price_latest, bollinger_bands)
    THEN Returned(close_all(positions), <<>>)
    ELSE Returned(<<>>,
                  [positions EXCEPT
                      ![1] = UpdateTrailingStop(price_latest, get_current_position(positions))])

\* The branch of decide_trades() taken with an open position
DecideLong(price_latest, bollinger_bands, positions) ==
    Returned(
        IF CloseCondition(price_latest, bollinger_bands)
        THEN close_all(positions)
        ELSE <<>>,
        [positions EXCEPT
            ![1] = UpdateTrailingStop(price_latest, get_current_position(positions))])

\* decide_trades(timestamp, universe, state, pricing_model, cycle_debug_data)
\* on the candles of the lookback window: the trades it returns and the open
\* positions of the portfolio when it returns.
decide_trades(candles, cash_in_hand, positions, comb, position_id) ==
    IF Len(candles) = 0
    THEN Returned(<<>>, positions)
    ELSE LET price_latest == Last(candles)
             rsi_series == rsi(candles, RSI_LENGTH)
         IN  IF rsi_series.is_none
             THEN Returned(<<>>, positions)
             ELSE LET bollinger_bands ==
                          bbands(candles, comb.moving_average_length, comb.stddev)
                  IN  IF bollinger_bands.is_none
                      THEN Returned(<<>>, positions)
                      ELSE IF ~is_any_open(positions)
                           THEN DecideFlat(price_latest, bollinger_bands, rsi_series,
                                           cash_in_hand, comb, positions, position_id)
                           ELSE DecideLong(price_latest, bollinger_bands, positions)

----------------------------------------------------------------------------
(* grid_search_worker() and the backtest executor that runs decide_trades *)

\* The choice lists in the order they are given to
\* prepare_grid_combinations(): the order of the destructuring
GridParameters == <<RSI_THRESHOLD, STDDEV, MOVING_AVERAGE_LENGTH>>

\* prepare_grid_combinations(): the cartesian product of the choice lists,
\* each combination a tuple with one value per list, in the order of the lists
prepare_grid_combinations(parameters) ==
    {<<a, b, c>> : a \in Range(parameters[1]),
                   b \in Range(parameters[2]),
                   c \in Range(parameters[3])}

\* a destructuring that takes stddev first, as the lists are declared
Destructure_DeclarationOrder(values) ==
    [rsi_threshold         |-> values[2],
     stddev                |-> values[1],
     moving_average_length |-> values[3]]

\* rsi_threshold, stddev, moving_average_length = combination.destructure()
Destructure(values) ==
    [rsi_threshold         |-> values[1],
     stddev                |-> values[2],
     moving_average_length |-> values[3]]

\* The combinations of the grid, as grid_search_worker() binds them
Combinations ==
    {Destructure(values) : values \in prepare_grid_combinations(GridParameters)}

\* a fee that differs from one combination to the next
PairFee_PerCombination(comb) == LIVE_TRADING_FEE + comb.moving_average_length

\* pair.fee = LIVE_TRADING_FEE
PairFee(comb) == LIVE_TRADING_FEE

\* a get_single() that takes the first pair when there are several
get_single_FirstPair(count) == count >= 1

\* universe.pairs.get_single(): succeeds with exactly one pair, else raises
get_single(count) == count = 1

\* The numbers of pairs a universe can hold
PairCounts == {0, 1, 2}

\* n candles closing at the warm-up price
Flat(n) == [i \in 1..n |-> WarmupClose]

WarmupLengths == {0} \cup ((RSI_LENGTH - 1)..MaxWarmup)

\* get_single_pair_data(timestamp, sample_count): the latest candles
Window(history, sample_count) ==
    IF Len(history) <= sample_count
    THEN history
    ELSE SubSeq(history, Len(history) - sample_count + 1, Len(history))

\* The state of one run: what the comparison of two runs looks at
RunState(balance, positions, new_trades, fee) ==
    [cash |-> balance, open_positions |-> positions, trades |-> new_trades,
     pair_fee |-> fee]

\* alone, in a specification that does not follow a second run
NotTracked == RunState(INITIAL_DEPOSIT, <<>>, <<>>, LIVE_TRADING_FEE)

Init ==
    /\ combination \in Combinations
    /\ closes \in {Flat(n) : n \in WarmupLengths}
    /\ cash = INITIAL_DEPOSIT
    /\ open_positions = <<>>
    /\ trades = <<>>
    /\ pair_fee \in UniverseFees
    /\ pc = "decide"
    /\ cycles = 0
    /\ next_position_id = 1
    /\ cycle_start = [cash |-> INITIAL_DEPOSIT, open_positions |-> <<>>]
    /\ observed = FALSE
    /\ pair_count \in PairCounts
    /\ alone = NotTracked
    /\ other_ran = FALSE

\* One call of decide_trades() by the executor, on the history given
RunCycle(history) ==
    /\ pc = "decide"
    /\ cycles < MaxCycles
    /\ get_single(pair_count)
    /\ \E candles \in {Window(history, LOOKBACK_WINDOW)} :
       \E result \in {decide_trades(candles, cash, open_positions, combination,
                                    next_position_id)} :
        /\ closes' = candles
        /\ pair_fee' = PairFee(combination)
        /\ trades' = result.trades
        /\ open_positions' = result.open_positions
        /\ next_position_id' =
              next_position_id + Len(result.open_positions) - Len(open_positions)
        /\ cycle_start' = [cash |-> cash, open_positions |-> open_positions]
        /\ observed' =
              \/ observed
              \/ /\ Len(candles) > 0
                 /\ is_any_open(open_positions)
                 /\ Last(candles) * PCT_SCALE
                      >= open_positions[1].opening_price
                           * TRAILING_STOP_LOSS_ACTIVATION_LEVEL
        /\ pc' = "execute"
        /\ cycles' = cycles + 1
        /\ UNCHANGED <<combination, cash>>

\* A cycle at a timestamp by which a new candle closed at c
Cycle(c) == RunCycle(Append(closes, c))

\* A cycle at a timestamp at which the pair has no candles yet
CycleNoCandles ==
    /\ closes = <<>>
    /\ RunCycle(closes)

\* A cycle on a universe that does not hold exactly one pair: get_single()
\* raises before anything else is done, and the run of the combination ends.
CycleConfigurationError ==
    /\ pc = "decide"
    /\ cycles < MaxCycles
    /\ ~get_single(pair_count)
    /\ pc' = "aborted"
    /\ UNCHANGED <<combination, closes, cash, open_positions, trades, pair_fee,
                   cycles, next_position_id, cycle_start, observed>>

\* What the sale of a position at price brings in, the pair's fee taken off
SaleProceeds(position, price, fee) ==
    ((((position.amount \div PCT_SCALE) * price) \div position.opening_price)
        * (PCT_SCALE - fee)) \div PCT_SCALE

\* Cash after the executor fills the trades ts at price
RECURSIVE CashAfter(_, _, _, _, _)
CashAfter(ts, positions, price, balance, fee) ==
    IF ts = <<>> THEN balance
    ELSE LET t == Head(ts)
         IN  CashAfter(Tail(ts), positions, price,
                 IF t.kind = "open"
                 THEN balance - (t.amount \div PCT_SCALE)
                 ELSE LET p == CHOOSE q \in Range(positions) :
                                   q.position_id = t.position_id
                      IN  balance + SaleProceeds(p, price, fee),
                 fee)

ClosedIds(ts) == {ts[i].position_id : i \in {j \in DOMAIN ts : ts[j].kind = "close"}}

\* The executor applies the trades decide_trades() returned: a buy takes its
\* amount out of the cash, a sell closes its position at the latest price.
Execute ==
    /\ pc = "execute"
    /\ cash' = CashAfter(trades, open_positions, Last(closes), cash, pair_fee)
    /\ open_positions' =
          SelectSeq(open_positions, LAMBDA p : p.position_id \notin ClosedIds(trades))
    /\ observed' = (observed /\ open_positions' # <<>>)
    /\ trades' = <<>>
    /\ pc' = "decide"
    /\ UNCHANGED <<combination, closes, pair_fee, cycles, next_position_id,
                   cycle_start>>

\* Between two cycles the executor sells an open position whose stop loss
\* level the market price has reached.
StopLossTriggered(price) ==
    /\ pc = "decide"
    /\ is_any_open(open_positions)
    /\ price * PCT_SCALE <= open_positions[1].stop_loss
    /\ cash' = cash + SaleProceeds(open_positions[1], price, pair_fee)
    /\ open_positions' = Tail(open_positions)
    /\ observed' = FALSE
    /\ UNCHANGED <<combination, closes, trades, pair_fee, pc, cycles,
                   next_position_id, cycle_start>>

\* What no step of a single run changes
universe_vars == <<pair_count, alone, other_ran>>

Next ==
    \/ \E c \in Closes : Cycle(c) /\ UNCHANGED universe_vars
    \/ CycleNoCandles /\ UNCHANGED universe_vars
    \/ CycleConfigurationError /\ UNCHANGED universe_vars
    \/ Execute /\ UNCHANGED universe_vars
    \/ \E price \in Closes : StopLossTriggered(price) /\ UNCHANGED universe_vars

Spec == Init /\ [][Next]_vars

----------------------------------------------------------------------------
(* Runs picked up late: a first cycle on a universe with a long history,    *)
(* and a run that opened a position many cycles ago.  The state of the      *)
(* latter is computed by running decide_trades() on every close since the   *)
(* run began; cycles counts the cycles from there on.                       *)

Repeat(c, m) == [i \in 1..m |-> c]

AllEqual(close) == \A i \in DOMAIN close : close[i] = close[1]

\* Lengths of a flat history before the first cycle
LongWarmupLengths == {MOVING_AVERAGE_LENGTH[Len(MOVING_AVERAGE_LENGTH)], LOOKBACK_WINDOW}

\* Numbers of cycles since the cycle that opened the position
SeasonedLengths == {0, MOVING_AVERAGE_LENGTH[1] - 1, LOOKBACK_WINDOW - 1}

\* The window of a run that opened at the close entry on its first cycle with
\* a value of both indicators and has seen k closes at c since
HistoryAt(entry, c, k) ==
    Window(Append(Flat(RSI_LENGTH), entry) \o Repeat(c, k), LOOKBACK_WINDOW)

\* A first cycle still to come, on a long flat history
InitLongWarmup ==
    /\ combination \in Combinations
    /\ closes \in {Repeat(c, n) : c \in Closes, n \in LongWarmupLengths}
    /\ cash = INITIAL_DEPOSIT
    /\ open_positions = <<>>
    /\ pair_fee \in UniverseFees
    /\ next_position_id = 1
    /\ cycle_start = [cash |-> INITIAL_DEPOSIT, open_positions |-> <<>>]
    /\ observed = FALSE

\* The run after the cycles lo..hi that followed the opening of the position,
\* each on one more close at c: the open positions, what the last cycle found
\* (before), and whether no cycle returned a trade (quiet).  The range is
\* halved and the first half computed before the second is entered, to keep
\* the evaluation shallow.
RECURSIVE Held(_, _, _, _, _, _, _)
Held(comb, entry, c, balance, lo, hi, run) ==
    IF lo > hi \/ ~run.quiet THEN run
    ELSE IF lo = hi
         THEN LET result == decide_trades(HistoryAt(entry, c, lo), balance,
                                          run.open_positions, comb, 2)
              IN  [quiet          |-> result.trades = <<>>,
                   open_positions |-> result.open_positions,
                   before         |-> run.open_positions]
         ELSE LET half == Held(comb, entry, c, balance, lo, (lo + hi) \div 2, run)
              IN  IF half.quiet
                  THEN Held(comb, entry, c, balance, (lo + hi) \div 2 + 1, hi, half)
                  ELSE half

\* The run opened its position at the close entry, the buy was filled, and m
\* cycles at the close c followed, none of which returned a trade; the
\* executor had no stop loss to execute.
InitHolding ==
    /\ combination \in Combinations
    /\ \E entry \in Closes, c \in Closes, m \in SeasonedLengths :
       \E opened \in {decide_trades(HistoryAt(entry, c, 0), INITIAL_DEPOSIT, <<>>,
                                     combination, 1)} :
        /\ opened.trades # <<>>
        /\ cash = CashAfter(opened.trades, opened.open_positions, entry,
                            INITIAL_DEPOSIT, PairFee(combination))
        /\ \E run \in {Held(combination, entry, c, cash, 1, m,
                             [quiet          |-> TRUE,
                              open_positions |-> opened.open_positions,
                              before         |-> <<>>])} :
            /\ run.quiet
            /\ closes = HistoryAt(entry, c, m)
            /\ open_positions = run.open_positions
            /\ cycle_start =
                  IF m = 0
                  THEN [cash |-> INITIAL_DEPOSIT, open_positions |-> <<>>]
                  ELSE [cash |-> cash, open_positions |-> run.before]
            /\ observed = (m >= 1 /\ TrailingActivation(
                                        c, get_current_position(opened.open_positions)))
    /\ pair_fee = PairFee(combination)
    /\ next_position_id = 2

InitSeasoned ==
    /\ (InitLongWarmup \/ InitHolding)
    /\ trades = <<>>
    /\ pc = "decide"
    /\ cycles = 0
    /\ pair_count = 1
    /\ alone = NotTracked
    /\ other_ran = FALSE

SeasonedCycle(c) ==
    /\ cycles < MaxSeasonedCycles
    /\ Cycle(c)

NextSeasoned ==
    \/ \E c \in Closes : SeasonedCycle(c) /\ UNCHANGED universe_vars
    \/ Execute /\ UNCHANGED universe_vars
    \/ \E price \in Closes : StopLossTriggered(price) /\ UNCHANGED universe_vars

SpecSeasoned == InitSeasoned /\ [][NextSeasoned]_vars

----------------------------------------------------------------------------
(* Two workers of the grid search on one universe.  The run of this          *)
(* combination is followed together with the same run on a universe of its  *)
(* own (alone); another worker's cycles come in between in any order.       *)

InitShared ==
    /\ combination \in Combinations
    /\ closes = Flat(RSI_LENGTH)
    /\ cash = INITIAL_DEPOSIT
    /\ open_positions = <<>>
    /\ trades = <<>>
    /\ pair_fee \in UniverseFees
    /\ pc = "decide"
    /\ cycles = 0
    /\ next_position_id = 1
    /\ cycle_start = [cash |-> INITIAL_DEPOSIT, open_positions |-> <<>>]
    /\ observed = FALSE
    /\ pair_count = 1
    /\ alone = RunState(INITIAL_DEPOSIT, <<>>, <<>>, pair_fee)
    /\ other_ran = FALSE

\* The cycle of the run alone, on the same candles
AloneAfterCycle(history) ==
    LET result == decide_trades(Window(history, LOOKBACK_WINDOW), alone.cash,
                                alone.open_positions, combination, next_position_id)
    IN  RunState(alone.cash, result.open_positions, result.trades,
                 PairFee(combination))

\* The executor of the run alone applies the trades, at its own pair's fee
AloneAfterExecute ==
    RunState(CashAfter(alone.trades, alone.open_positions, Last(closes),
                       alone.cash, alone.pair_fee),
             SelectSeq(alone.open_positions,
                       LAMBDA p : p.position_id \notin ClosedIds(alone.trades)),
             <<>>, alone.pair_fee)

\* The executor of the run alone sells on the stop loss at the same price
AloneAfterStopLoss(price) ==
    IF alone.open_positions = <<>>
    THEN alone
    ELSE RunState(alone.cash + SaleProceeds(alone.open_positions[1], price,
                                            alone.pair_fee),
                  Tail(alone.open_positions), alone.trades, alone.pair_fee)

SharedCycle(c) ==
    /\ Cycle(c)
    /\ alone' = AloneAfterCycle(Append(closes, c))
    /\ UNCHANGED <<pair_count, other_ran>>

SharedExecute ==
    /\ Execute
    /\ alone' = AloneAfterExecute
    /\ UNCHANGED <<pair_count, other_ran>>

SharedStopLoss(price) ==
    /\ StopLossTriggered(price)
    /\ alone' = AloneAfterStopLoss(price)
    /\ UNCHANGED <<pair_count, other_ran>>

\* The values the workers of the grid write to pair.fee
WorkerFees == {PairFee(comb) : comb \in Combinations}

\* A cycle of the worker of another combination on the same universe: of
\* what this run can see it writes pair.fee, and nothing else.
OtherWorkerCycle(fee) ==
    /\ get_single(pair_count)
    /\ pair_fee' = fee
    /\ other_ran' = TRUE
    /\ UNCHANGED <<combination, closes, cash, open_positions, trades, pc,
                   cycles, next_position_id, cycle_start, observed, pair_count,
                   alone>>

NextShared ==
    \/ \E c \in Closes : SharedCycle(c)
    \/ SharedExecute
    \/ \E price \in Closes : SharedStopLoss(price)
    \/ \E fee \in WorkerFees : OtherWorkerCycle(fee)

SpecShared == InitShared /\ [][NextShared]_vars

----------------------------------------------------------------------------
(* What the claims speak of *)

\* decide_trades() has returned and the executor has not yet applied its trades
CycleReturned == pc = "execute"

StartedFlat == cycle_start.open_positions = <<>>
StartedLong == cycle_start.open_positions # <<>>

\* The indicators of the window the last cycle was given
LatestRsi == rsi(closes, RSI_LENGTH)
LatestBands == bbands(closes, combination.moving_average_length, combination.stddev)
IndicatorsDefined == ~LatestBands.is_none /\ ~LatestRsi.nan
IndicatorsReturned == ~LatestBands.is_none /\ ~LatestRsi.is_none
LatestClose == Last(closes)

OpenIntents == {i \in DOMAIN trades : trades[i].kind = "open"}
CloseIntents == {i \in DOMAIN trades : trades[i].kind = "close"}

Max(a, b) == IF a >= b THEN a ELSE b

----------------------------------------------------------------------------
(* C1 *)

\* C1: once trailing is active for an open position, every later cycle that
\* leaves the position open leaves its stop loss level at or above the level
\* it had when the cycle began.
C1_StopLossRatchet ==
    ( /\ CycleReturned
      /\ StartedLong
      /\ open_positions # <<>>
      /\ cycle_start.open_positions[1].trailing_stop_loss_pct # None )
    => open_positions[1].stop_loss >= cycle_start.open_positions[1].stop_loss

----------------------------------------------------------------------------
(* C2 *)

\* C2: a cycle that starts with no position and has both indicators defined
\* returns an open trade exactly when the latest close is above the upper
\* band and the latest RSI is at or above the combination's threshold.
C2_OpenIffBreakoutAndRsi ==
    (CycleReturned /\ StartedFlat /\ IndicatorsDefined)
    => ( OpenIntents # {}
         <=> ( /\ AboveUpperBand(LatestClose, LatestBands)
               /\ RsiAtLeast(LatestRsi, combination.rsi_threshold) ) )

\* A flat cycle whose close broke out above the upper band while the RSI was
\* defined and below the threshold, and that returned no trade
C2_Witness ==
    /\ CycleReturned
    /\ StartedFlat
    /\ IndicatorsDefined
    /\ AboveUpperBand(LatestClose, LatestBands)
    /\ ~RsiAtLeast(LatestRsi, combination.rsi_threshold)
    /\ trades = <<>>

----------------------------------------------------------------------------
(* C3 *)

\* C3: a cycle that starts with an open position and computes both
\* indicators returns one close trade for the whole position when the latest
\* close is below the middle band, and no trade at all otherwise, whatever
\* the RSI and whatever the trailing stop check does.
C3_CloseIffBelowMiddleBand ==
    (CycleReturned /\ StartedLong /\ IndicatorsReturned)
    => IF BelowMiddleBand(LatestClose, LatestBands)
       THEN /\ Len(trades) = 1
            /\ trades[1].kind = "close"
            /\ trades[1].position_id = cycle_start.open_positions[1].position_id
            /\ trades[1].amount = cycle_start.open_positions[1].amount
       ELSE trades = <<>>

\* A cycle that moved the stop loss of the open position by the trailing
\* check, with the close not below the middle band, and returned no trade
C3_Witness ==
    /\ CycleReturned
    /\ StartedLong
    /\ IndicatorsReturned
    /\ ~BelowMiddleBand(LatestClose, LatestBands)
    /\ open_positions[1].stop_loss # cycle_start.open_positions[1].stop_loss
    /\ trades = <<>>

\* A cycle that returned the close trade while the RSI was defined
C3_WitnessClose ==
    /\ CycleReturned
    /\ StartedLong
    /\ IndicatorsDefined
    /\ BelowMiddleBand(LatestClose, LatestBands)
    /\ Len(trades) = 1

----------------------------------------------------------------------------
(* C4 *)

\* C4: a cycle whose window holds fewer than max(RSI_LENGTH + 1,
\* moving_average_length) closes returns no trade and leaves the open
\* positions (stop loss and trailing stop setting included) as they were.
C4_ShortWindowNoTrades ==
    ( /\ CycleReturned
      /\ Len(closes) < Max(RSI_LENGTH + 1, combination.moving_average_length) )
    => /\ trades = <<>>
       /\ open_positions = cycle_start.open_positions

\* A cycle on a window of RSI_LENGTH closes, for which rsi() and bbands()
\* both return a series and the close is above the upper band
C4_Witness ==
    /\ CycleReturned
    /\ Len(closes) = RSI_LENGTH
    /\ ~LatestBands.is_none
    /\ AboveUpperBand(LatestClose, LatestBands)
    /\ trades = <<>>

----------------------------------------------------------------------------
(* C5 *)

\* C5: when the open condition holds in a cycle that starts with no position,
\* the cycle returns exactly one trade, an open trade, whose amount is the
\* cash read in that cycle times POSITION_SIZE.
C5_OpenSizedFromCash ==
    ( /\ CycleReturned
      /\ StartedFlat
      /\ IndicatorsDefined
      /\ AboveUpperBand(LatestClose, LatestBands)
      /\ RsiAtLeast(LatestRsi, combination.rsi_threshold) )
    => /\ Len(trades) = 1
       /\ trades[1].kind = "open"
       /\ trades[1].amount = cycle_start.cash * POSITION_SIZE

\* An open trade returned by a cycle that read a cash balance other than
\* the initial deposit
C5_Witness ==
    /\ CycleReturned
    /\ StartedFlat
    /\ Len(trades) = 1
    /\ trades[1].kind = "open"
    /\ cycle_start.cash # INITIAL_DEPOSIT
    /\ trades[1].amount = cycle_start.cash * POSITION_SIZE

----------------------------------------------------------------------------
(* C6 *)

\* C6 as stated: the open trade carries an initial stop loss of
\* entry price * (1 - stop_loss_pct).
C6_StopLossOneMinusPct ==
    (CycleReturned /\ OpenIntents # {})
    => \A i \in OpenIntents :
          trades[i].stop_loss = LatestClose * (PCT_SCALE - STOP_LOSS_PCT)

\* C6 amended: the open trade carries an initial stop loss of
\* entry price * stop_loss_pct, with stop_loss_pct = STOP_LOSS_PCT (0.98 of
\* the entry price), and the position it opens has that stop loss.
C6_StopLossPctOfEntry ==
    (CycleReturned /\ OpenIntents # {})
    => \A i \in OpenIntents :
          /\ trades[i].stop_loss = LatestClose * STOP_LOSS_PCT
          /\ \E j \in DOMAIN open_positions :
                /\ open_positions[j].position_id = trades[i].position_id
                /\ open_positions[j].opening_price = LatestClose
                /\ open_positions[j].stop_loss = trades[i].stop_loss

\* A cycle that returned an open trade
C6_Witness ==
    /\ CycleReturned
    /\ StartedFlat
    /\ OpenIntents # {}
    /\ open_positions # <<>>
    /\ open_positions[1].stop_loss < open_positions[1].opening_price * PCT_SCALE

----------------------------------------------------------------------------
(* C7 *)

\* The stop loss levels the trailing check can write for a position
TrailingLevels(position) ==
    {c * TRAILING_STOP_LOSS_PCT :
        c \in {d \in Closes : d * PCT_SCALE
                   >= position.opening_price * TRAILING_STOP_LOSS_ACTIVATION_LEVEL}}

\* C7: once a cycle has seen the close at or above opening price * activation
\* level, the open position keeps its trailing stop setting and its stop loss
\* is a level written by the trailing check, not the initial stop loss,
\* also in cycles whose close is back below the activation level.
C7_TrailingStaysActive ==
    (observed /\ open_positions # <<>>)
    => /\ open_positions[1].trailing_stop_loss_pct = TRAILING_STOP_LOSS_PCT
       /\ open_positions[1].stop_loss \in TrailingLevels(open_positions[1])
       /\ open_positions[1].stop_loss
            # open_positions[1].opening_price * STOP_LOSS_PCT

\* A cycle on an activated position whose close is back below the
\* activation level
C7_Witness ==
    /\ CycleReturned
    /\ StartedLong
    /\ observed
    /\ cycle_start.open_positions[1].trailing_stop_loss_pct # None
    /\ open_positions # <<>>
    /\ LatestClose * PCT_SCALE
         < open_positions[1].opening_price * TRAILING_STOP_LOSS_ACTIVATION_LEVEL

----------------------------------------------------------------------------
(* C8 *)

\* C8: as long as no cycle has seen the close at or above opening price *
\* activation level, the open position keeps the stop loss set when it was
\* opened and has no trailing stop setting.
C8_FixedStopBeforeActivation ==
    (~observed /\ open_positions # <<>>)
    => /\ open_positions[1].stop_loss
            = open_positions[1].opening_price * STOP_LOSS_PCT
       /\ open_positions[1].trailing_stop_loss_pct = None

\* A cycle run on an open position that computed both indicators, with a
\* close not below the opening price and below the activation level
C8_Witness ==
    /\ CycleReturned
    /\ StartedLong
    /\ IndicatorsReturned
    /\ ~observed
    /\ open_positions # <<>>
    /\ LatestClose >= open_positions[1].opening_price

----------------------------------------------------------------------------
(* C9 *)

\* C9: there is never more than one open position: the run starts with
\* none, and a cycle returns an open trade only if it started with none.
C9_AtMostOnePosition ==
    /\ Len(open_positions) <= 1
    /\ (cycles = 0 => open_positions = <<>>)
    /\ (OpenIntents # {} => StartedFlat)

\* A cycle that started with an open position, saw the open condition hold
\* again and returned no open trade
C9_Witness ==
    /\ CycleReturned
    /\ StartedLong
    /\ IndicatorsDefined
    /\ AboveUpperBand(LatestClose, LatestBands)
    /\ RsiAtLeast(LatestRsi, combination.rsi_threshold)
    /\ OpenIntents = {}
    /\ Len(open_positions) = 1

----------------------------------------------------------------------------
(* C11 *)

\* C11: with the cycles of another combination's worker interleaved in any
\* order, the run returns the same trades and has the same cash and open
\* positions as the same run alone; the one shared object a cycle writes,
\* pair.fee, holds LIVE_TRADING_FEE once any cycle has run.
C11_NoSharedMutableState ==
    /\ trades = alone.trades
    /\ cash = alone.cash
    /\ open_positions = alone.open_positions
    /\ ((cycles > 0 \/ other_ran) => pair_fee = LIVE_TRADING_FEE)

\* The executor has sold a position of this run at the pair's fee after a
\* cycle of another worker ran
C11_Witness ==
    /\ other_ran
    /\ pc = "decide"
    /\ cycles > 0
    /\ open_positions = <<>>
    /\ cash # INITIAL_DEPOSIT

----------------------------------------------------------------------------
(* C12 *)

\* The choice lists in the order the source file declares them
DeclaredLists == <<STDDEV, RSI_THRESHOLD, MOVING_AVERAGE_LENGTH>>

ListSizes(parameters) == [i \in DOMAIN parameters |-> Len(parameters[i])]

\* The number of combinations the sweep yields, and of the bindings the
\* workers destructure them to
SweepSize == Cardinality(prepare_grid_combinations(GridParameters))
BindingCount == Cardinality(Combinations)

----------------------------------------------------------------------------
(* C13 *)

\* C13: with zero tradable pairs or more than one, no cycle ever completes:
\* the first cycle stops at get_single(), before the fee is written and with
\* no trade returned, no position and no cash changed, and the run of the
\* combination ends there; a run is aborted for no other reason.
C13_ConfigurationErrorAborts ==
    /\ (pair_count # 1 =>
            /\ pc \in {"decide", "aborted"}
            /\ cycles = 0
            /\ trades = <<>>
            /\ open_positions = <<>>
            /\ cash = INITIAL_DEPOSIT
            /\ closes \in {Flat(n) : n \in WarmupLengths}
            /\ ~ENABLED (\E c \in Closes : Cycle(c))
            /\ ~ENABLED Execute
            /\ (pc = "aborted" => ~ENABLED Next))
    /\ (pc = "aborted" => pair_count # 1)

\* The first cycle of a run on a universe of two pairs has failed
C13_Witness ==
    /\ pc = "aborted"
    /\ pair_count = 2
    /\ closes # <<>>

----------------------------------------------------------------------------
(* C17 *)

PositionIds(positions) == {positions[i].position_id : i \in DOMAIN positions}

\* C17: a cycle returns at most one trade; an open trade comes only from a
\* cycle that started with no open position and is for a position that was
\* not there at its start; a close trade comes only from a cycle that
\* started with an open position and is for that position; so no cycle
\* both opens and closes a position.
C17_AtMostOneIntent ==
    /\ Len(trades) <= 1
    /\ (OpenIntents = {} \/ CloseIntents = {})
    /\ \A i \in OpenIntents :
            /\ StartedFlat
            /\ trades[i].position_id \notin PositionIds(cycle_start.open_positions)
    /\ \A i \in CloseIntents :
            /\ StartedLong
            /\ trades[i].position_id \in PositionIds(cycle_start.open_positions)

\* A cycle has returned the close of the position an earlier cycle of the
\* run opened
C17_Witness ==
    /\ CycleReturned
    /\ cycles >= 2
    /\ StartedLong
    /\ Len(trades) = 1
    /\ CloseIntents = {1}
    /\ trades[1].position_id = cycle_start.open_positions[1].position_id

----------------------------------------------------------------------------
(* C18 *)

\* The stop loss is the one the position was opened with
AtInitialStop(position) ==
    /\ position.trailing_stop_loss_pct = None
    /\ position.stop_loss = InitialStopLoss(position.opening_price, STOP_LOSS_PCT)

\* The stop loss was written by the trailing check on the close c: below c,
\* at least opening price * activation level * trailing percent, above the
\* opening price and above the initial stop loss.  (The activation level is
\* taken in hundredths to stay in the range of the integers.)
WrittenByTrailing(position, c) ==
    /\ position.trailing_stop_loss_pct = TRAILING_STOP_LOSS_PCT
    /\ position.stop_loss = c * TRAILING_STOP_LOSS_PCT
    /\ position.stop_loss < c * PCT_SCALE
    /\ position.stop_loss * (PCT_SCALE \div 100)
            >= position.opening_price
                 * (TRAILING_STOP_LOSS_ACTIVATION_LEVEL \div 100)
                 * TRAILING_STOP_LOSS_PCT
    /\ position.stop_loss > position.opening_price * PCT_SCALE
    /\ position.stop_loss > InitialStopLoss(position.opening_price, STOP_LOSS_PCT)

\* C18: the stop loss of every open position is either its initial stop
\* loss, or a value the trailing check wrote on a close of the window, and
\* then it is below that close, at least opening price * 1.03 * 0.9975 and
\* above the opening price and the initial stop loss; it is never below the
\* initial stop loss.
C18_StopNeverBelowInitial ==
    \A i \in DOMAIN open_positions :
        /\ \/ AtInitialStop(open_positions[i])
           \/ \E j \in DOMAIN closes : WrittenByTrailing(open_positions[i], closes[j])
        /\ open_positions[i].stop_loss
              >= InitialStopLoss(open_positions[i].opening_price, STOP_LOSS_PCT)

\* A position keeps the stop loss the trailing check wrote on an earlier
\* close, the latest close being under the activation level
C18_Witness ==
    /\ CycleReturned
    /\ open_positions # <<>>
    /\ ~TrailingActivation(LatestClose, open_positions[1])
    /\ open_positions[1].trailing_stop_loss_pct = TRAILING_STOP_LOSS_PCT
    /\ open_positions[1].stop_loss > LatestClose * TRAILING_STOP_LOSS_PCT

----------------------------------------------------------------------------
(* C16 *)

\* C16 as stated: when a cycle returns, cash and the set of open positions
\* are what they were at its start
C16_CycleChangesNoStatus ==
    CycleReturned =>
        /\ cash = cycle_start.cash
        /\ PositionIds(open_positions) = PositionIds(cycle_start.open_positions)

\* The position is the same holding as at the start of the cycle
SameHolding(position, before) ==
    /\ position.position_id = before.position_id
    /\ position.opening_price = before.opening_price
    /\ position.amount = before.amount

\* C16: when a cycle returns, cash is what it was at its start and every
\* position open at its start is still open with the same amount, a close
\* trade returned or not; a position that was not open at the start is the
\* one of the open trade the cycle returns, registered in the portfolio by
\* open_1x_long() and not paid for yet.
C16_CycleMovesNoCash ==
    CycleReturned =>
        /\ cash = cycle_start.cash
        /\ \A i \in DOMAIN cycle_start.open_positions :
                /\ i \in DOMAIN open_positions
                /\ SameHolding(open_positions[i], cycle_start.open_positions[i])
        /\ \A i \in DOMAIN open_positions :
                \/ i \in DOMAIN cycle_start.open_positions
                \/ \E j \in OpenIntents :
                        /\ trades[j].position_id = open_positions[i].position_id
                        /\ trades[j].amount = open_positions[i].amount

\* A cycle that started with no position, after an earlier position of the
\* run was sold, has returned an open trade with its position in the
\* portfolio and the cash not yet spent
C16_Witness ==
    /\ CycleReturned
    /\ StartedFlat
    /\ OpenIntents # {}
    /\ open_positions # <<>>
    /\ cash = cycle_start.cash
    /\ cash # INITIAL_DEPOSIT

----------------------------------------------------------------------------
(* C14 *)

\* The window has a length at which rsi() and bbands() both have a value
LongEnough(close, comb) ==
    Len(close) >= Max(RSI_LENGTH + 1, comb.moving_average_length)

\* C14: a cycle on a window of equal closes, long enough for both
\* indicators, gets both series (the RSI being NaN and the bands of zero
\* width), returns no trade and leaves the open positions, stop loss and
\* trailing stop setting included, as they were at its start, with or
\* without an open position.
C14_DegenerateWindowNoTrades ==
    (CycleReturned /\ AllEqual(closes) /\ LongEnough(closes, combination))
    => /\ IndicatorsReturned
       /\ LatestRsi.nan
       /\ Dispersion(LatestBands) = 0
       /\ trades = <<>>
       /\ open_positions = cycle_start.open_positions

\* A cycle with an open position on a full window of equal closes, at or
\* above the activation level of the trailing stop loss
C14_Witness ==
    /\ CycleReturned
    /\ StartedLong
    /\ AllEqual(closes)
    /\ Len(closes) = LOOKBACK_WINDOW
    /\ TrailingActivation(LatestClose, open_positions[1])
    /\ trades = <<>>

\* A cycle without a position on a window of equal closes
C14_WitnessFlat ==
    /\ CycleReturned
    /\ StartedFlat
    /\ AllEqual(closes)
    /\ LongEnough(closes, combination)
    /\ combination.moving_average_length > RSI_LENGTH + 1

----------------------------------------------------------------------------
(* C15 *)

\* C15: in a cycle that starts with an open position and gets both
\* indicators, the close trade is returned exactly when the latest close is
\* below the middle band, whatever the trailing check does, and the stop
\* loss is set to latest close * TRAILING_STOP_LOSS_PCT with the trailing
\* percent set exactly when the latest close is at or above opening price *
\* activation level, whatever the close check does; when both hold the
\* cycle does both.
C15_CloseAndTrailingIndependent ==
    (CycleReturned /\ StartedLong /\ IndicatorsReturned)
    => LET before == get_current_position(cycle_start.open_positions)
           after == get_current_position(open_positions)
       IN  /\ (CloseIntents # {} <=> LatestClose * LatestBands.length < LatestBands.sum)
           /\ after =
                 IF LatestClose * PCT_SCALE
                      >= before.opening_price * TRAILING_STOP_LOSS_ACTIVATION_LEVEL
                 THEN [before EXCEPT
                         !.stop_loss = LatestClose * TRAILING_STOP_LOSS_PCT,
                         !.trailing_stop_loss_pct = TRAILING_STOP_LOSS_PCT]
                 ELSE before

\* A cycle whose close is below the middle band and at or above the
\* activation level has returned the close trade and moved the stop loss
C15_Witness ==
    /\ CycleReturned
    /\ StartedLong
    /\ IndicatorsReturned
    /\ BelowMiddleBand(LatestClose, LatestBands)
    /\ TrailingActivation(LatestClose, cycle_start.open_positions[1])
    /\ CloseIntents = {1}
    /\ open_positions[1].stop_loss = LatestClose * TRAILING_STOP_LOSS_PCT
    /\ open_positions[1].stop_loss # cycle_start.open_positions[1].stop_loss

====
